---- MODULE Spec2Model ----
(***************************************************************************)
(* rest-smtp-sink (src/index.js): an SMTP sink that stores every received  *)
(* mail in one SQLite table and serves it over HTTP.                       *)
(*                                                                         *)
(* The model is a state machine of the event loop: one action per callback *)
(* or per resumption after an `await`.  A database call takes effect at    *)
(* the moment its promise settles, and the code that follows it up to the  *)
(* next `await` runs in the same step.                                     *)
(***************************************************************************)
EXTENDS Integers, Sequences, FiniteSets, TLC

(***************************************************************************)
(* Bounds of the model.                                                    *)
(***************************************************************************)
\* Number of mails the clients submit over the whole run.
MaxMails == 2

\* The SMTP connections, the HTTP requests in flight, the texts of the ids.
Conns == {"c1", "c2"}
Reqs == {"r1", "r2"}
IdText == <<"1", "2", "3", "4", "5">>

(***************************************************************************)
(* JavaScript values.  A string is a sequence of atoms (an atom stands for *)
(* a run of characters); the quote and the backslash are atoms of their    *)
(* own, so that JSON quoting and escaping are computed.                    *)
(***************************************************************************)
QUOTE == "\""
BACKSLASH == "\\"

Undefined == [t |-> "undefined", v |-> <<>>]
Null == [t |-> "null", v |-> <<>>]
Str(s) == [t |-> "string", v |-> s]
Arr(a) == [t |-> "array", v |-> a]
Obj(kv) == [t |-> "object", v |-> kv]
\* The value of an expression that threw.
Thrown == [t |-> "throw", v |-> <<>>]

RECURSIVE EscapeText(_)
\* The inside of a JSON string literal: quote and backslash are escaped.
EscapeText(s) ==
  IF s = <<>> THEN <<>>
  ELSE (IF Head(s) \in {QUOTE, BACKSLASH} THEN <<BACKSLASH, Head(s)>> ELSE <<Head(s)>>)
         \o EscapeText(Tail(s))

RECURSIVE JsonText(_)
RECURSIVE JsonElems(_, _)
RECURSIVE JsonMembers(_, _)
\* The JSON text of a value other than undefined.  Inside an array undefined
\* is written null; inside an object a member whose value is undefined is left out.
JsonText(x) ==
  CASE x.t = "string" -> <<QUOTE>> \o EscapeText(x.v) \o <<QUOTE>>
    [] x.t = "array" -> <<"[">> \o JsonElems(x.v, 1) \o <<"]">>
    [] x.t = "object" -> <<"{">> \o JsonMembers(x.v, TRUE) \o <<"}">>
    [] OTHER -> <<"null">>

JsonElems(a, i) ==
  IF i > Len(a) THEN <<>>
  ELSE (IF i > 1 THEN <<",">> ELSE <<>>) \o JsonText(a[i]) \o JsonElems(a, i + 1)

JsonMembers(kv, first) ==
  IF kv = <<>> THEN <<>>
  ELSE IF Head(kv).val.t = "undefined" THEN JsonMembers(Tail(kv), first)
  ELSE (IF first THEN <<>> ELSE <<",">>)
         \o <<QUOTE>> \o EscapeText(Head(kv).key) \o <<QUOTE, ":">>
         \o JsonText(Head(kv).val) \o JsonMembers(Tail(kv), FALSE)

\* JSON.stringify(x): undefined for undefined, else a string holding the JSON text.
Stringify(x) == IF x.t = "undefined" THEN Undefined ELSE Str(JsonText(x))

\* Result of a parsing step: ok, the value read, and the atoms left.
PFail == [ok |-> FALSE, val |-> Null, rest |-> <<>>]
POk(val, rest) == [ok |-> TRUE, val |-> val, rest |-> rest]

RECURSIVE ParseChars(_, _)
\* The characters of a string literal after its opening quote.
ParseChars(toks, acc) ==
  IF toks = <<>> THEN PFail
  ELSE IF Head(toks) = QUOTE THEN POk(Str(acc), Tail(toks))
  ELSE IF Head(toks) = BACKSLASH
    THEN IF Len(toks) < 2 \/ toks[2] \notin {QUOTE, BACKSLASH} THEN PFail
         ELSE ParseChars(Tail(Tail(toks)), Append(acc, toks[2]))
  ELSE ParseChars(Tail(toks), Append(acc, Head(toks)))

RECURSIVE ParseValue(_)
RECURSIVE ParseElems(_, _)
RECURSIVE ParseMembers(_, _)
ParseValue(toks) ==
  IF toks = <<>> THEN PFail
  ELSE CASE Head(toks) = "null" -> POk(Null, Tail(toks))
         [] Head(toks) = QUOTE -> ParseChars(Tail(toks), <<>>)
         [] Head(toks) = "[" ->
              IF Len(toks) >= 2 /\ toks[2] = "]" THEN POk(Arr(<<>>), Tail(Tail(toks)))
              ELSE ParseElems(Tail(toks), <<>>)
         [] Head(toks) = "{" ->
              IF Len(toks) >= 2 /\ toks[2] = "}" THEN POk(Obj(<<>>), Tail(Tail(toks)))
              ELSE ParseMembers(Tail(toks), <<>>)
         [] OTHER -> PFail

\* One element, then "," and more elements, or "]".
ParseElems(toks, acc) ==
  LET e == ParseValue(toks) IN
  IF ~e.ok \/ e.rest = <<>> THEN PFail
  ELSE IF Head(e.rest) = "]" THEN POk(Arr(Append(acc, e.val)), Tail(e.rest))
  ELSE IF Head(e.rest) = "," THEN ParseElems(Tail(e.rest), Append(acc, e.val))
  ELSE PFail

\* One "key": value member, then "," and more members, or "}".
ParseMembers(toks, acc) ==
  IF toks = <<>> \/ Head(toks) # QUOTE THEN PFail
  ELSE LET k == ParseChars(Tail(toks), <<>>) IN
    IF ~k.ok \/ k.rest = <<>> \/ Head(k.rest) # ":" THEN PFail
    ELSE LET e == ParseValue(Tail(k.rest)) IN
      IF ~e.ok \/ e.rest = <<>> THEN PFail
      ELSE LET kv == Append(acc, [key |-> k.val.v, val |-> e.val]) IN
        IF Head(e.rest) = "}" THEN POk(Obj(kv), Tail(e.rest))
        ELSE IF Head(e.rest) = "," THEN ParseMembers(Tail(e.rest), kv)
        ELSE PFail

\* JSON.parse(x): the argument is first converted to a string (null becomes
\* the text null, undefined the text undefined); a text that is not JSON throws.
JsonParse(x) ==
  LET text == CASE x.t = "string" -> x.v
                [] x.t = "null" -> <<"null">>
                [] OTHER -> <<"undefined">>
      r == ParseValue(text)
  IN IF r.ok /\ r.rest = <<>> THEN r.val ELSE Thrown

(***************************************************************************)
(* The clients of the model.                                               *)
(***************************************************************************)
\* The envelope each client gives in MAIL FROM and RCPT TO.
EnvelopeFrom(c) == IF c = "c1" THEN Str(<<"a@x">>) ELSE Str(<<"c@z">>)
EnvelopeTo(c) ==
  IF c = "c1" THEN Arr(<<Str(<<"b@y">>)>>) ELSE Arr(<<Str(<<"d@w">>), Str(<<"e@v">>)>>)

\* The message each client sends, as the chunks it arrives in.
MessageOf(c) == IF c = "c1" THEN <<"Subject: Hi", "hello">> ELSE <<"<p>yo</p>">>

\* The columns of table emails that hold JSON.
JsonColumns == {"html", "text", "headers", "subject", "messageId", "priority", "from", "to"}

\* The mail object the parser hands to its 'end' listener for the chunks written.
MailObject(chunks) ==
  CASE chunks = <<"Subject: Hi", "hello">> ->
         [html |-> Undefined, text |-> Str(<<"hello">>),
          headers |-> Obj(<<[key |-> <<"subject">>, val |-> Str(<<"Hi">>)]>>),
          subject |-> Str(<<"Hi">>), messageId |-> Undefined, priority |-> Str(<<"normal">>)]
    [] chunks = <<"<p>yo</p>">> ->
         [html |-> Str(<<"<p>yo</p>">>), text |-> Undefined, headers |-> Obj(<<>>),
          subject |-> Undefined, messageId |-> Undefined, priority |-> Str(<<"normal">>)]
    [] OTHER ->
         [html |-> Undefined, text |-> Str(chunks), headers |-> Obj(<<>>),
          subject |-> Undefined, messageId |-> Undefined, priority |-> Str(<<"normal">>)]

VARIABLES
  started,     \* progress of start(): schema, smtp, http
  info,        \* the 'info' events emitted, in order
  tableExists, \* whether table emails exists in the database file
  store,       \* the rows of table emails
  seq,         \* the AUTOINCREMENT counter of table emails
  conn,        \* the SMTP connections
  mails,       \* number of mails submitted so far
  insertLog,   \* the ids the store assigned, in order
  listeners,   \* the 'email' listeners of the sink, in the emitter's array
  regBefore,   \* pairs of registered listeners: the first registered earlier
  calls,       \* the listeners the last emit('email') invoked, in order
  req          \* the HTTP requests

vars == <<started, info, tableExists, store, seq, conn, mails, insertLog,
          listeners, regBefore, calls, req>>

(***************************************************************************)
(* The store: table emails behind knex.                                    *)
(***************************************************************************)
\* A value bound to an insert: undefined becomes NULL (useNullAsDefault).
Bind(x) == IF x.t = "undefined" THEN Null ELSE x

\* The integer an id parameter converts to under the column's INTEGER
\* affinity; 0 when the text is not a number.
IdOf(s) ==
  IF \E i \in 1..Len(IdText) : IdText[i] = s
  THEN CHOOSE i \in 1..Len(IdText) : IdText[i] = s
  ELSE 0

RECURSIVE SortById(_)
\* Rows in rowid order, the order of a table scan.
SortById(rows) ==
  IF rows = {} THEN <<>>
  ELSE LET m == CHOOSE r \in rows : \A q \in rows : r.id <= q.id
       IN <<m>> \o SortById(rows \ {m})

\* select * from emails
SelectAll == SortById(store)
\* select * from emails where id = k
SelectWhereId(k) == SortById({r \in store : r.id = k})
\* where id = <text parameter>
SelectWhereIdText(s) == IF IdOf(s) = 0 THEN <<>> ELSE SelectWhereId(IdOf(s))
\* where id <= <text parameter>: every integer sorts before a text that is no number
MatchUpTo(s) == {r \in store : IdOf(s) = 0 \/ r.id <= IdOf(s)}
\* The query ordered by id ascending.
SelectOldest ==
  IF store = {} THEN <<>>
  ELSE <<CHOOSE r \in store : \A q \in store : r.id <= q.id>>

\* select * from emails order by id desc limit 1
SelectLatest ==
  IF store = {} THEN <<>>
  ELSE <<CHOOSE r \in store : \A q \in store : q.id <= r.id>>

\* An id as a rowid without AUTOINCREMENT: one more than the greatest id in the table.
NextIdMaxRowid ==
  IF store = {} THEN 1 ELSE (CHOOSE r \in store : \A q \in store : q.id <= r.id).id + 1

\* The id an insert is given: one more than the AUTOINCREMENT counter.
NextId == seq + 1

\* The values with the envelope of another connection in session, when
\* there is one: the envelope kept in one place for all connections.
InsertValuesShared(mail_object, c) ==
  LET d == CHOOSE d \in Conns : d # c
      e == IF conn[d].from # Undefined THEN d ELSE c
  IN [html |-> Stringify(mail_object.html),
      text |-> Stringify(mail_object.text),
      headers |-> Stringify(mail_object.headers),
      subject |-> Stringify(mail_object.subject),
      messageId |-> Stringify(mail_object.messageId),
      priority |-> Stringify(mail_object.priority),
      from |-> Stringify(conn[e].from),
      to |-> Stringify(conn[e].to)]

\* The values the 'end' listener binds to its insert.
InsertValues(mail_object, c) ==
  [html |-> Stringify(mail_object.html),
   text |-> Stringify(mail_object.text),
   headers |-> Stringify(mail_object.headers),
   subject |-> Stringify(mail_object.subject),
   messageId |-> Stringify(mail_object.messageId),
   priority |-> Stringify(mail_object.priority),
   from |-> Stringify(conn[c].from),
   to |-> Stringify(conn[c].to)]

\* The row an insert of these values stores under id.
RowOf(id, values) ==
  [id |-> id,
   html |-> Bind(values.html), text |-> Bind(values.text),
   headers |-> Bind(values.headers), subject |-> Bind(values.subject),
   messageId |-> Bind(values.messageId), priority |-> Bind(values.priority),
   from |-> Bind(values.from), to |-> Bind(values.to)]

\* deserialize(o): every JSON column parsed in place; throws on undefined and
\* when a column does not hold JSON.
Deserialize(o) ==
  IF "id" \notin DOMAIN o THEN Thrown
  ELSE LET d == [f \in DOMAIN o |-> IF f \in JsonColumns THEN JsonParse(o[f]) ELSE o[f]]
       IN IF \E f \in JsonColumns : d[f] = Thrown THEN Thrown ELSE d

\* resp[0]
First(rows) == IF rows = <<>> THEN Undefined ELSE rows[1]

(***************************************************************************)
(* The event emitter the sink inherits.                                    *)
(***************************************************************************)
\* A listener put at the head of the array, as by prependListener.
OnPrepend(ls, r) == <<r>> \o ls

\* on('email', listener)
On(ls, r) == Append(ls, r)

\* The head of the array is taken out, whichever listener was given.
RemoveHead(ls, r) == IF ls = <<>> THEN <<>> ELSE Tail(ls)

RECURSIVE RemoveListener(_, _)
\* removeListener('email', listener): the listener's entry is taken out.
RemoveListener(ls, r) ==
  IF ls = <<>> THEN <<>>
  ELSE IF Head(ls) = r THEN Tail(ls)
  ELSE <<Head(ls)>> \o RemoveListener(Tail(ls), r)

\* emit('email', item): the listeners invoked, in the order of the array.
EmitOrder(ls) == ls

(***************************************************************************)
(* Initial state: the sink is constructed, start() has not run.  The       *)
(* database file may be left from an earlier run, with the table in it.    *)
(***************************************************************************)
NoConn ==
  [st |-> "idle", from |-> Undefined, to |-> Undefined, todo |-> <<>>,
   mailparser |-> <<>>, ended |-> FALSE, donecallback |-> FALSE,
   values |-> <<>>, record |-> <<>>, emitted |-> <<>>, acked |-> <<>>,
   listedBy |-> {}]

NoReq ==
  [pc |-> "free", path |-> <<>>, route |-> "none", closed |-> FALSE, onclose |-> FALSE,
   found |-> 0, status |-> 0, text |-> "", items |-> <<>>, rows |-> <<>>]

Init ==
  /\ started = [schema |-> "none", smtp |-> FALSE, http |-> FALSE]
  /\ info = <<>>
  /\ tableExists \in BOOLEAN
  /\ store = {}
  /\ seq = 0
  /\ conn = [c \in Conns |-> NoConn]
  /\ mails = 0
  /\ insertLog = <<>>
  /\ listeners = <<>>
  /\ regBefore = {}
  /\ calls = <<>>
  /\ req = [r \in Reqs |-> NoReq]

(***************************************************************************)
(* start() and createSchema().                                             *)
(***************************************************************************)
\* createSchema(): createTable succeeds, fails because the table exists, or
\* fails for another reason (the file cannot be opened, the disk is full).
\* The catch emits the message of any error as 'info' and returns normally.
CreateSchema ==
  /\ started.schema = "none"
  /\ \E outcome \in {"created", "exists", "other"} :
       /\ outcome = "created" => ~tableExists
       /\ outcome = "exists" => tableExists
       /\ tableExists' = (tableExists \/ outcome = "created")
       /\ started' = [started EXCEPT !.schema = outcome]
       /\ info' = IF outcome = "created" THEN info ELSE Append(info, outcome)
  /\ UNCHANGED <<store, seq, conn, mails, insertLog, listeners, regBefore, calls, req>>

\* The rest of start() after createSchema resolved: both servers listen.
Listen ==
  /\ started.schema # "none"
  /\ ~started.smtp
  /\ started' = [started EXCEPT !.smtp = TRUE, !.http = TRUE]
  /\ info' = info \o <<"SMTP server listening", "HTTP server listening">>
  /\ UNCHANGED <<tableExists, store, seq, conn, mails, insertLog, listeners,
                 regBefore, calls, req>>

(***************************************************************************)
(* What has been written to a client is seen in the state right after the  *)
(* step that wrote it, and has left the process before the next callback   *)
(* runs: an HTTP response (pc "done"), the rows written to a live page and *)
(* flushed (rows), and an SMTP reply (st "acked").  A session whose        *)
(* listener ended without calling back (st "failed") gets no reply: the    *)
(* state right after shows it, then the connection is dropped.             *)
(***************************************************************************)
Quiet ==
  /\ \A r \in Reqs : req[r].pc # "done" /\ req[r].rows = <<>>
  /\ \A c \in Conns : conn[c].st \notin {"acked", "failed"}

(***************************************************************************)
(* The chunks of a message reach the parser of their connection and touch  *)
(* nothing else, so a step of the data phase commutes with every step of   *)
(* the store and of the HTTP routes.  The data phases of the connections   *)
(* interleave with each other; the other steps are taken between them.     *)
(***************************************************************************)
NoData == \A c \in Conns : conn[c].st # "data"

(***************************************************************************)
(* The SMTP sessions.                                                      *)
(***************************************************************************)
\* 'startData': the client has given its envelope, which the server library
\* keeps in connection.from and connection.to, and starts the data phase.
\* The connection gets a new parser.
StartData(c) ==
  /\ Quiet
  /\ started.smtp
  /\ conn[c].st = "idle"
  /\ mails < MaxMails
  /\ mails' = mails + 1
  /\ conn' = [conn EXCEPT ![c] = [NoConn EXCEPT !.st = "data",
                                    !.from = EnvelopeFrom(c), !.to = EnvelopeTo(c),
                                    !.todo = MessageOf(c), !.mailparser = <<>>]]
  /\ UNCHANGED <<started, info, tableExists, store, seq, insertLog, listeners,
                 regBefore, calls, req>>

\* 'data' with one parser for all connections: the chunk is written to the
\* parser the latest 'startData' made.
DataShared(c) ==
  /\ Quiet
  /\ conn[c].st = "data"
  /\ conn[c].todo # <<>>
  /\ LET d == IF \E e \in Conns \ {c} : conn[e].st = "data" /\ conn[e].mailparser = <<>>
               THEN CHOOSE e \in Conns \ {c} : conn[e].st = "data" /\ conn[e].mailparser = <<>>
               ELSE c
     IN conn' = [conn EXCEPT ![d].mailparser = Append(@, Head(conn[c].todo)),
                             ![c].todo = Tail(@)]
  /\ UNCHANGED <<started, info, tableExists, store, seq, mails, insertLog, listeners,
                 regBefore, calls, req>>

\* 'data': the chunk is written to the connection's parser.
Data(c) ==
  /\ Quiet
  /\ conn[c].st = "data"
  /\ conn[c].todo # <<>>
  /\ conn' = [conn EXCEPT ![c].mailparser = Append(@, Head(conn[c].todo)),
                          ![c].todo = Tail(@)]
  /\ UNCHANGED <<started, info, tableExists, store, seq, mails, insertLog, listeners,
                 regBefore, calls, req>>

\* 'dataReady' with the emit before the insert: the mail is emitted when it
\* has been parsed, with no id yet (written 0).
DataReadyEmits(c) ==
  /\ Quiet
  /\ conn[c].st = "data"
  /\ conn[c].todo = <<>>
  /\ conn' = [conn EXCEPT ![c].st = "insert", ![c].donecallback = TRUE, ![c].ended = TRUE,
                          ![c].values = <<InsertValues(MailObject(conn[c].mailparser), c)>>,
                          ![c].emitted = Append(@, 0)]
  /\ UNCHANGED <<started, info, tableExists, store, seq, mails, insertLog, listeners,
                 regBefore, calls, req>>

\* 'dataReady': the callback is kept on the connection and the parser is
\* ended.  The parser emits 'end' before any other callback of the event
\* loop runs: its listener builds the values from the mail object and the
\* connection's envelope, and calls insert.
DataReady(c) ==
  /\ Quiet
  /\ conn[c].st = "data"
  /\ conn[c].todo = <<>>
  /\ conn' = [conn EXCEPT ![c].st = "insert", ![c].donecallback = TRUE, ![c].ended = TRUE,
                          ![c].values = <<InsertValues(MailObject(conn[c].mailparser), c)>>]
  /\ UNCHANGED <<started, info, tableExists, store, seq, mails, insertLog, listeners,
                 regBefore, calls, req>>

\* The callback is called without awaiting the insert.
InsertNotAwaited(c) ==
  /\ Quiet /\ NoData
  /\ conn[c].st = "insert"
  /\ conn' = [conn EXCEPT ![c].st = "acked", ![c].acked = <<NextId>>]
  /\ UNCHANGED <<started, info, tableExists, store, seq, mails, insertLog, listeners,
                 regBefore, calls, req>>

\* The insert settles.  With no table it rejects and the listener ends there.
InsertDone(c) ==
  /\ Quiet /\ NoData
  /\ conn[c].st = "insert"
  /\ IF tableExists
       THEN /\ store' = store \cup {RowOf(NextId, conn[c].values[1])}
            /\ seq' = NextId
            /\ insertLog' = Append(insertLog, NextId)
            /\ conn' = [conn EXCEPT ![c].st = "select", ![c].record = <<NextId>>]
       ELSE /\ conn' = [conn EXCEPT ![c].st = "failed"]
            /\ UNCHANGED <<store, seq, insertLog>>
  /\ UNCHANGED <<started, info, tableExists, mails, listeners, regBefore, calls, req>>

\* The row of the live page for an item.
RenderItem(item) ==
  [id |-> item.id, to |-> item.to, from |-> item.from, subject |-> item.subject]

\* The select of the inserted row settles: the row is deserialized and
\* emitted to every listener, then the session's callback is called.  With
\* no row, deserialize throws and the listener ends there.
SelectDone(c) ==
  /\ Quiet /\ NoData
  /\ conn[c].st = "select"
  /\ LET mail == SelectWhereId(conn[c].record[1])
         item == Deserialize(First(mail))
     IN IF item = Thrown
          THEN /\ conn' = [conn EXCEPT ![c].st = "failed"]
               /\ UNCHANGED <<calls, req>>
          ELSE /\ calls' = EmitOrder(listeners)
               /\ req' = [r \in Reqs |->
                           IF \E i \in 1..Len(calls') : calls'[i] = r
                             THEN [req[r] EXCEPT !.rows = Append(@, RenderItem(item))]
                             ELSE req[r]]
               /\ conn' = [conn EXCEPT ![c].st = "acked",
                                       ![c].emitted = Append(@, item.id),
                                       ![c].acked = conn[c].record]
  /\ UNCHANGED <<started, info, tableExists, store, seq, mails, insertLog, listeners,
                 regBefore>>

\* The reply to the client and the rows flushed to the live pages have
\* left; the connection takes the next mail.
Reply(c) ==
  /\ conn[c].st = "acked"
  /\ conn' = [conn EXCEPT ![c] = NoConn]
  /\ calls' = <<>>
  /\ req' = [r \in Reqs |-> [req[r] EXCEPT !.rows = <<>>]]
  /\ UNCHANGED <<started, info, tableExists, store, seq, mails, insertLog, listeners,
                 regBefore>>

\* The session got no reply: its connection times out and is closed.  The
\* client connects again for its next mail.
Dropped(c) ==
  /\ conn[c].st = "failed"
  /\ conn' = [conn EXCEPT ![c] = NoConn]
  /\ UNCHANGED <<started, info, tableExists, store, seq, mails, insertLog, listeners,
                 regBefore, calls, req>>

Session(c) ==
  \/ StartData(c)
  \/ Data(c)
  \/ DataReady(c)
  \/ InsertDone(c)
  \/ SelectDone(c)
  \/ Reply(c)
  \/ Dropped(c)

(***************************************************************************)
(* The HTTP routes.                                                        *)
(***************************************************************************)
\* The routes with the id lookup registered before `latest` and `stream`.
RoutesIdFirst ==
  << [name |-> "root", pattern |-> <<>>],
     [name |-> "list", pattern |-> <<"api", "email">>],
     [name |-> "byId", pattern |-> <<"api", "email", ":id">>],
     [name |-> "stream", pattern |-> <<"api", "email", "stream">>],
     [name |-> "latest", pattern |-> <<"api", "email", "latest">>],
     [name |-> "delete", pattern |-> <<"api", "email", "delete", ":id">>],
     [name |-> "purge", pattern |-> <<"api", "email", "purge", ":id">>] >>

\* The routes in the order createWebServer registers them.
Routes ==
  << [name |-> "root", pattern |-> <<>>],
     [name |-> "list", pattern |-> <<"api", "email">>],
     [name |-> "stream", pattern |-> <<"api", "email", "stream">>],
     [name |-> "latest", pattern |-> <<"api", "email", "latest">>],
     [name |-> "byId", pattern |-> <<"api", "email", ":id">>],
     [name |-> "delete", pattern |-> <<"api", "email", "delete", ":id">>],
     [name |-> "purge", pattern |-> <<"api", "email", "purge", ":id">>] >>

Matches(pattern, path) ==
  /\ Len(pattern) = Len(path)
  /\ \A i \in 1..Len(path) : pattern[i] = ":id" \/ pattern[i] = path[i]

\* The first registered route whose pattern matches the path handles it.
RouteOf(path) ==
  IF \E i \in 1..Len(Routes) : Matches(Routes[i].pattern, path)
  THEN Routes[CHOOSE i \in 1..Len(Routes) :
                /\ Matches(Routes[i].pattern, path)
                /\ \A j \in 1..(i - 1) : ~Matches(Routes[j].pattern, path)].name
  ELSE "none"

\* req.params.id: the last segment of the path.
ParamId(path) == path[Len(path)]

\* The paths the clients request.
Params == {"1", "2"}
Paths ==
  {<<>>, <<"api", "email">>, <<"api", "email", "stream">>, <<"api", "email", "latest">>}
    \cup {<<"api", "email", k>> : k \in Params}
    \cup {<<"api", "email", "delete", k>> : k \in Params}
    \cup {<<"api", "email", "purge", k>> : k \in Params}

RECURSIVE MapDeserialize(_)
\* resp.forEach(self.deserialize)
MapDeserialize(rows) ==
  IF rows = <<>> THEN <<>> ELSE <<Deserialize(Head(rows))>> \o MapDeserialize(Tail(rows))

RECURSIVE MapRender(_)
MapRender(items) ==
  IF items = <<>> THEN <<>> ELSE <<RenderItem(Head(items))>> \o MapRender(Tail(items))

\* A request for `path` arrives and `route` handles it.  It is given the
\* first free slot.
Arrives(r, path, route) ==
  /\ Quiet /\ NoData
  /\ started.http
  /\ req[r].pc = "free"
  /\ r = "r2" => req["r1"].pc # "free"
  /\ path \in Paths
  /\ RouteOf(path) = route

\* The request as its handler finds it.
NewReq(path) == [NoReq EXCEPT !.path = path, !.route = RouteOf(path)]

\* A response: the request is over.
Respond(q, status, text, items) ==
  [q EXCEPT !.pc = "done", !.status = status, !.text = text, !.items = items]

\* A rejected query: express's error handler answers 500.
Fail(q) == Respond(q, 500, "Internal Server Error", <<>>)

NotFound(q) == Respond(q, 404, "Not found", <<>>)

\* `/`: the page head is written and the listing is awaited.
Root(r) ==
  /\ Arrives(r, <<>>, "root")
  /\ req' = [req EXCEPT ![r] = [NewReq(<<>>) EXCEPT !.pc = "query"]]
  /\ UNCHANGED <<started, info, tableExists, store, seq, conn, mails, insertLog,
                 listeners, regBefore, calls>>

\* The sessions as they are once request r was written its listing: a
\* session whose record is in the listing and still to be published has r
\* among the viewers that were listed its record (listedBy).
ListedTo(r) ==
  [c \in Conns |->
     IF conn[c].st = "select" /\ \E q \in store : q.id = conn[c].record[1]
       THEN [conn[c] EXCEPT !.listedBy = @ \cup {r}]
       ELSE conn[c]]

\* `/` with an await between the listing and the registration of the
\* listener: the rows are written in one step, the listener and the 'close'
\* handler are registered in a later one.
RootListedThenAwait(r) ==
  /\ Quiet /\ NoData
  /\ req[r].route = "root"
  /\ \/ /\ req[r].pc = "query" /\ tableExists
        /\ req' = [req EXCEPT ![r].pc = "listed"]
        /\ conn' = ListedTo(r)
        /\ UNCHANGED <<listeners, regBefore>>
     \/ /\ req[r].pc = "query" /\ ~tableExists
        /\ req' = [req EXCEPT ![r] = Fail(req[r])]
        /\ UNCHANGED <<listeners, regBefore, conn>>
     \/ /\ req[r].pc = "listed"
        /\ req' = [req EXCEPT ![r].pc = "live", ![r].onclose = TRUE]
        /\ listeners' = On(listeners, r)
        /\ regBefore' = regBefore \cup {<<q, r>> : q \in {q \in Reqs : req[q].pc = "live"}}
        /\ UNCHANGED conn
  /\ UNCHANGED <<started, info, tableExists, store, seq, mails, insertLog, calls>>

\* `/`: the listing settles; its rows are written, then the listener and
\* the 'close' handler are registered.
RootListed(r) ==
  /\ Quiet /\ NoData
  /\ req[r].pc = "query" /\ req[r].route = "root"
  /\ IF tableExists
       THEN /\ req' = [req EXCEPT ![r].pc = "live", ![r].onclose = TRUE,
                                  ![r].rows = MapRender(MapDeserialize(SelectAll))]
            /\ listeners' = On(listeners, r)
            /\ regBefore' = regBefore \cup {<<q, r>> : q \in {q \in Reqs : req[q].pc = "live"}}
            /\ conn' = ListedTo(r)
       ELSE /\ req' = [req EXCEPT ![r] = Fail(req[r])]
            /\ UNCHANGED <<listeners, regBefore, conn>>
  /\ UNCHANGED <<started, info, tableExists, store, seq, mails, insertLog, calls>>

\* The client of `/` disconnects: 'close' is emitted on the request, once,
\* to the handlers registered at that moment.
ClientClose(r) ==
  /\ Quiet /\ NoData
  /\ req[r].route = "root"
  /\ req[r].pc \in {"query", "live"}
  /\ ~req[r].closed
  /\ IF req[r].onclose
       THEN /\ listeners' = RemoveListener(listeners, r)
            /\ regBefore' = {p \in regBefore : p[1] # r /\ p[2] # r}
            /\ req' = [req EXCEPT ![r].closed = TRUE, ![r].pc = "done"]
            /\ conn' = [c \in Conns |-> [conn[c] EXCEPT !.listedBy = @ \ {r}]]
       ELSE /\ req' = [req EXCEPT ![r].closed = TRUE]
            /\ UNCHANGED <<listeners, regBefore, conn>>
  /\ UNCHANGED <<started, info, tableExists, store, seq, mails, insertLog, calls>>

\* `/api/email` with deserialize run on the rows of the table themselves.
ListAllInPlace(r) ==
  /\ Arrives(r, <<"api", "email">>, "list")
  /\ LET q == NewReq(<<"api", "email">>) IN
     req' = [req EXCEPT ![r] =
               IF tableExists THEN Respond(q, 200, "", MapDeserialize(SelectAll))
               ELSE Fail(q)]
  /\ store' = {Deserialize(q) : q \in store}
  /\ UNCHANGED <<started, info, tableExists, seq, conn, mails, insertLog,
                 listeners, regBefore, calls>>

\* `/api/email`
ListAll(r) ==
  /\ Arrives(r, <<"api", "email">>, "list")
  /\ LET q == NewReq(<<"api", "email">>) IN
     req' = [req EXCEPT ![r] =
               IF tableExists THEN Respond(q, 200, "", MapDeserialize(SelectAll))
               ELSE Fail(q)]
  /\ UNCHANGED <<started, info, tableExists, store, seq, conn, mails, insertLog,
                 listeners, regBefore, calls>>

\* `/api/email/stream`: the rows of the query are piped to the response as
\* they are.
Stream(r) ==
  /\ Arrives(r, <<"api", "email", "stream">>, "stream")
  /\ LET q == NewReq(<<"api", "email", "stream">>) IN
     req' = [req EXCEPT ![r] =
               IF tableExists THEN Respond(q, 200, "", SelectAll) ELSE Fail(q)]
  /\ UNCHANGED <<started, info, tableExists, store, seq, conn, mails, insertLog,
                 listeners, regBefore, calls>>

\* `/api/email/latest`
Latest(r) ==
  /\ \E path \in Paths :
       /\ Arrives(r, path, "latest")
       /\ LET q == NewReq(path)
              resp == SelectLatest
          IN req' = [req EXCEPT ![r] =
                       IF ~tableExists THEN Fail(q)
                       ELSE IF Len(resp) < 1 THEN NotFound(q)
                       ELSE Respond(q, 200, "", <<Deserialize(resp[1])>>)]
  /\ UNCHANGED <<started, info, tableExists, store, seq, conn, mails, insertLog,
                 listeners, regBefore, calls>>

\* `/api/email/:id`
ById(r) ==
  /\ \E path \in Paths :
       /\ Arrives(r, path, "byId")
       /\ LET q == NewReq(path)
              resp == SelectWhereIdText(ParamId(path))
          IN req' = [req EXCEPT ![r] =
                       IF ~tableExists THEN Fail(q)
                       ELSE IF Len(resp) < 1 THEN NotFound(q)
                       ELSE Respond(q, 200, "", <<Deserialize(resp[1])>>)]
  /\ UNCHANGED <<started, info, tableExists, store, seq, conn, mails, insertLog,
                 listeners, regBefore, calls>>

\* `/api/email/delete/:id`, up to the delete it awaits.
DeleteSelect(r) ==
  /\ \E path \in Paths :
       /\ Arrives(r, path, "delete")
       /\ LET q == NewReq(path)
              resp == SelectWhereIdText(ParamId(path))
          IN req' = [req EXCEPT ![r] =
                       IF ~tableExists THEN Fail(q)
                       ELSE IF Len(resp) < 1 THEN NotFound(q)
                       ELSE [q EXCEPT !.pc = "del", !.found = Len(resp)]]
  /\ UNCHANGED <<started, info, tableExists, store, seq, conn, mails, insertLog,
                 listeners, regBefore, calls>>

\* A delete with the comparison of the purge.
AfterDeleteUpTo(s) == {q \in store : IdOf(s) # 0 /\ q.id > IdOf(s)}

\* The rows table emails keeps after `delete from emails where id = <text>`.
AfterDelete(s) == {q \in store : IdOf(s) = 0 \/ q.id # IdOf(s)}

\* `/api/email/delete/:id`, the delete settles.
DeleteDel(r) ==
  /\ Quiet /\ NoData
  /\ req[r].pc = "del" /\ req[r].route = "delete"
  /\ store' = AfterDelete(ParamId(req[r].path))
  /\ req' = [req EXCEPT ![r] = Respond(req[r], 200, "Removed", <<>>)]
  /\ UNCHANGED <<started, info, tableExists, seq, conn, mails, insertLog,
                 listeners, regBefore, calls>>

\* `/api/email/purge/:id`, up to the delete it awaits.
PurgeSelect(r) ==
  /\ \E path \in Paths :
       /\ Arrives(r, path, "purge")
       /\ LET q == NewReq(path)
              resp == SortById(MatchUpTo(ParamId(path)))
          IN req' = [req EXCEPT ![r] =
                       IF ~tableExists THEN Fail(q)
                       ELSE IF Len(resp) < 1 THEN NotFound(q)
                       ELSE [q EXCEPT !.pc = "del", !.found = Len(resp)]]
  /\ UNCHANGED <<started, info, tableExists, store, seq, conn, mails, insertLog,
                 listeners, regBefore, calls>>

\* A purge with < for <=.
AfterPurgeBelow(s) == {q \in store : IdOf(s) # 0 /\ q.id >= IdOf(s)}

\* The rows table emails keeps after `delete from emails where id <= <text>`.
AfterPurge(s) == store \ MatchUpTo(s)

\* `/api/email/purge/:id`, the delete settles.
PurgeDel(r) ==
  /\ Quiet /\ NoData
  /\ req[r].pc = "del" /\ req[r].route = "purge"
  /\ store' = AfterPurge(ParamId(req[r].path))
  /\ req' = [req EXCEPT ![r] = Respond(req[r], 200, "Purged records older than", <<>>)]
  /\ UNCHANGED <<started, info, tableExists, seq, conn, mails, insertLog,
                 listeners, regBefore, calls>>

\* The rows of the initial listing have left.
Flushed(r) ==
  /\ req[r].pc = "live"
  /\ req[r].rows # <<>>
  /\ \A c \in Conns : conn[c].st # "acked"
  /\ req' = [req EXCEPT ![r].rows = <<>>]
  /\ UNCHANGED <<started, info, tableExists, store, seq, conn, mails, insertLog,
                 listeners, regBefore, calls>>

\* The response has left; the slot serves the next request.
Finish(r) ==
  /\ req[r].pc = "done"
  /\ req' = [req EXCEPT ![r] = NoReq]
  /\ UNCHANGED <<started, info, tableExists, store, seq, conn, mails, insertLog,
                 listeners, regBefore, calls>>

Http(r) ==
  \/ Root(r)
  \/ RootListed(r)
  \/ ClientClose(r)
  \/ ListAll(r)
  \/ Stream(r)
  \/ Latest(r)
  \/ ById(r)
  \/ DeleteSelect(r)
  \/ DeleteDel(r)
  \/ PurgeSelect(r)
  \/ PurgeDel(r)
  \/ Flushed(r)
  \/ Finish(r)

Next ==
  \/ CreateSchema
  \/ Listen
  \/ \E c \in Conns : Session(c)
  \/ \E r \in Reqs : Http(r)

Spec == Init /\ [][Next]_vars

(***************************************************************************)
(* Properties.                                                             *)
(***************************************************************************)
\* The step in which a session emits 'email' and calls its callback.
Publishes(c) == conn[c].st = "select" /\ conn'[c].st = "acked"

\* The listeners registered and not removed: the handler of `/` has run
\* self.on and the 'close' handler has not run.
Registered == {r \in Reqs : req[r].pc = "live"}

\* The row with the given id, deserialized and rendered for the live page.
RowFor(id) == RenderItem(Deserialize(CHOOSE q \in store : q.id = id))

\* C1: when a session's callback has been called (the success reply), the
\* insert of its record has completed: the id it is called with was
\* assigned by the store and the row built from the session's values is in
\* the table.
C1_AckAfterInsert ==
  \A c \in Conns :
    conn[c].st = "acked" =>
      /\ conn[c].acked # <<>>
      /\ \E i \in 1..Len(insertLog) : insertLog[i] = conn[c].acked[1]
      /\ RowOf(conn[c].acked[1], conn[c].values[1]) \in store

C1_Witness == \E c \in Conns : conn[c].st = "acked" /\ Len(insertLog) = 2

\* C2: at every publication, the listener of a viewer of `/` is invoked (a
\* row for the published record is written to it) if and only if the
\* listener is registered and not removed at that moment; every other
\* request is left as it is.
C2_ExactlyBetweenOnAndRemove ==
  [][\A c \in Conns : Publishes(c) =>
       \A r \in Reqs :
         IF r \in Registered
           THEN req'[r] = [req[r] EXCEPT !.rows = Append(@, RowFor(conn[c].record[1]))]
           ELSE req'[r] = req[r]]_vars

\* A publication that reached one viewer while the other was still listing.
C2_Witness ==
  /\ \E c \in Conns : conn[c].st = "acked"
  /\ \E r \in Reqs, q \in Reqs :
       /\ req[r].pc = "live" /\ req[r].rows # <<>>
       /\ req[r].rows[Len(req[r].rows)].id = seq
       /\ req[q].route = "root" /\ req[q].pc = "query"

\* C3: once the client of `/` has disconnected and the handler has run to
\* its end, the request's listener is not registered on the emitter.
C3_DisconnectUnsubscribes ==
  \A r \in Reqs :
    (req[r].closed /\ req[r].pc # "query") =>
      \A i \in 1..Len(listeners) : listeners[i] # r

\* C4: a publication invokes, within its own step, every listener
\* registered at that moment, each once, in the order of registration.
C4_SynchronousInOrder ==
  [][\A c \in Conns : Publishes(c) =>
       /\ {calls'[i] : i \in 1..Len(calls')} = Registered
       /\ Len(calls') = Cardinality(Registered)
       /\ \A i \in 1..Len(calls'), j \in 1..Len(calls') :
            i < j => <<calls'[i], calls'[j]>> \in regBefore
       /\ \A r \in Registered : Len(req'[r].rows) = Len(req[r].rows) + 1]_vars

C4_Witness == Len(calls) = 2 /\ \E c \in Conns : conn[c].st = "acked"

\* C5: the ids the store assigns strictly increase in the order of the
\* inserts, whatever was deleted or purged in between, and no two rows of
\* the table share an id.
C5_IdsIncrease ==
  /\ \A i \in 1..Len(insertLog), j \in 1..Len(insertLog) :
       i < j => insertLog[i] < insertLog[j]
  /\ \A p \in store, q \in store : p.id = q.id => p = q
  /\ \A p \in store : \E i \in 1..Len(insertLog) : insertLog[i] = p.id

\* An insert issued after every row inserted so far was deleted.
C5_Witness ==
  /\ insertLog = <<1>>
  /\ store = {}
  /\ \E c \in Conns : conn[c].st = "insert"

\* C6: the delete of `/api/email/delete/:id` removes the row with that id
\* and no other row; the request answers 404, with the table unchanged,
\* exactly when its select finds no row with that id.
C6_DeleteExactlyOne ==
  [][\A r \in Reqs :
       /\ (req[r].pc = "del" /\ req[r].route = "delete" /\ req'[r].pc = "done") =>
            /\ req'[r].status = 200
            /\ store' \subseteq store
            /\ \A q \in store : q \in store' <=> q.id # IdOf(ParamId(req[r].path))
       /\ (req[r].pc = "free" /\ req'[r].route = "delete" /\ tableExists) =>
            /\ store' = store
            /\ IF \E q \in store : q.id = IdOf(ParamId(req'[r].path))
                 THEN req'[r].pc = "del"
                 ELSE req'[r].pc = "done" /\ req'[r].status = 404]_vars

\* A delete answered 200 with another row left in the table.
C6_Witness ==
  \E r \in Reqs :
    /\ req[r].pc = "done" /\ req[r].route = "delete" /\ req[r].status = 200
    /\ store # {}

\* C7: the delete of `/api/email/purge/:id` with value k, run after the
\* select found a row, removes every row with id <= k and leaves every row
\* with id > k as it is, whatever was inserted since the select.
C7_PurgeUpTo ==
  [][\A r \in Reqs :
       (req[r].pc = "del" /\ req[r].route = "purge" /\ req'[r].pc = "done") =>
         /\ req[r].found >= 1
         /\ req'[r].status = 200
         /\ store' \subseteq store
         /\ \A q \in store : q \in store' <=> q.id > IdOf(ParamId(req[r].path))]_vars

\* A purge about to delete, with a row of id <= k inserted since its select.
C7_Witness ==
  \E r \in Reqs :
    /\ req[r].pc = "del" /\ req[r].route = "purge"
    /\ Cardinality(MatchUpTo(ParamId(req[r].path))) > req[r].found

\* C8: `/api/email/stream` answers with the sequence `/api/email` answers
\* with for the same table: the same rows in the same order, each with
\* its JSON columns decoded.
C8_StreamSameAsList ==
  \A r \in Reqs :
    (req[r].pc = "done" /\ req[r].route = "stream" /\ req[r].status = 200) =>
      req[r].items = MapDeserialize(SelectAll)

\* C9: when createTable fails for another reason than the table existing,
\* start() fails and neither server listens.
C9_OtherFailurePropagates ==
  started.schema = "other" => (~started.smtp /\ ~started.http)

\* C10: `/api/email/latest`, its query settled, answers with the decoded row
\* of the greatest id in the table, and with 404 exactly when the table
\* holds no row.
C10_LatestIsGreatest ==
  \A r \in Reqs :
    (req[r].pc = "done" /\ req[r].route = "latest" /\ tableExists) =>
      /\ req[r].status = 404 <=> store = {}
      /\ store # {} =>
           /\ req[r].status = 200
           /\ Len(req[r].items) = 1
           /\ \A q \in store : q.id <= req[r].items[1].id
           /\ \E q \in store : req[r].items = <<Deserialize(q)>>

\* The latest of a table with two rows, and of one whose first row is gone.
C10_Witness ==
  \E r \in Reqs :
    /\ req[r].pc = "done" /\ req[r].route = "latest" /\ req[r].status = 200
    /\ Cardinality(store) = 2

\* C11: `/api/email/:id`, its query settled, answers with the decoded row
\* stored under the id when there is one and with 404 when there is none;
\* a request for `/api/email/latest` or `/api/email/stream` is handled by
\* the route of that name, never by the id lookup.
C11_ByIdOrNotFound ==
  \A r \in Reqs :
    /\ (req[r].pc = "done" /\ req[r].route = "byId" /\ tableExists) =>
         LET k == IdOf(ParamId(req[r].path)) IN
         IF \E q \in store : q.id = k
           THEN /\ req[r].status = 200
                /\ req[r].items = <<Deserialize(CHOOSE q \in store : q.id = k)>>
           ELSE req[r].status = 404 /\ req[r].items = <<>>
    /\ (req[r].pc = "done" /\ req[r].path = <<"api", "email", "latest">>) =>
         req[r].route = "latest"
    /\ (req[r].pc = "done" /\ req[r].path = <<"api", "email", "stream">>) =>
         req[r].route = "stream"
    /\ req[r].route = "byId" => ParamId(req[r].path) \notin {"latest", "stream"}

\* The lookup of the second of two rows.
C11_Witness ==
  \E r \in Reqs :
    /\ req[r].pc = "done" /\ req[r].route = "byId" /\ req[r].status = 200
    /\ req[r].path = <<"api", "email", "2">>
    /\ Cardinality(store) = 2

\* The routes that only read the table.
ReadRoutes == {"root", "list", "stream", "latest", "byId"}

\* C12: a row of the table stays as it was inserted, field by field, until
\* it is gone, and it goes only in the step in which the delete of a delete
\* or purge request settles; no step of a request for `/`, `/api/email`,
\* `/api/email/stream`, `/api/email/latest` or `/api/email/:id` changes the
\* table.
C12_RowsOnlyLeaveByDelete ==
  [][/\ \A q \in store :
          \/ q \in store'
          \/ /\ \A p \in store' : p.id # q.id
             /\ \E r \in Reqs : /\ req[r].pc = "del" /\ req'[r].pc = "done"
                                 /\ req[r].route \in {"delete", "purge"}
     /\ \A r \in Reqs :
          (req'[r] # req[r] /\ (req[r].route \in ReadRoutes \/ req'[r].route \in ReadRoutes))
            => store' = store]_vars

\* A listing answered from a table that has lost its first row and kept
\* its second.
C12_Witness ==
  \E r \in Reqs :
    /\ req[r].pc = "done" /\ req[r].route = "list" /\ req[r].status = 200
    /\ seq = 2 /\ Cardinality(store) = 1
    /\ \E q \in store : q.id = 2

\* The field values a session hands to JSON.stringify for its insert.
HandedOver(c) ==
  LET mail_object == MailObject(conn[c].mailparser) IN
  [html |-> mail_object.html, text |-> mail_object.text,
   headers |-> mail_object.headers, subject |-> mail_object.subject,
   messageId |-> mail_object.messageId, priority |-> mail_object.priority,
   from |-> conn[c].from, to |-> conn[c].to]

\* C13: every field of the row a session inserted, read back and decoded
\* by deserialize, equals the value the session handed over for it.
C13_RoundTrip ==
  \A c \in Conns :
    conn[c].st \in {"select", "acked"} =>
      \A q \in store :
        q.id = conn[c].record[1] =>
          \A f \in JsonColumns : Deserialize(q)[f] = HandedOver(c)[f]

\* The fields that hold a value are read back as handed over; a field that
\* was undefined is read back as null.
C13_DefinedRoundTrip ==
  \A c \in Conns :
    conn[c].st \in {"select", "acked"} =>
      \A q \in store :
        q.id = conn[c].record[1] =>
          \A f \in JsonColumns :
            Deserialize(q)[f] = IF HandedOver(c)[f] = Undefined THEN Null
                                ELSE HandedOver(c)[f]

\* C14: a session whose data phase has ended gets the success reply, also
\* when a delete or purge comes between its insert and its re-read: the
\* listener of 'end' never ends without having called the callback.  Stated
\* with table emails present, where no insert is rejected.
C14_EndedSessionIsAcked ==
  tableExists => \A c \in Conns : conn[c].st # "failed"

\* The step in which the insert of a session settles with a record.
Inserts(c) == conn[c].st = "insert" /\ conn'[c].st = "select"

\* C15: the insert of a session adds exactly one row, which carries in
\* `from` and `to` the envelope of that session and whose id is the record
\* the session keeps; no row is added in any other step; the callback is
\* called for the session that inserted the record, with that record, and
\* the step touches no other session.
C15_RecordOfItsSession ==
  [][/\ \A c \in Conns :
          /\ Inserts(c) =>
               /\ \A d \in Conns \ {c} : conn'[d] = conn[d]
               /\ \E q \in store' :
                    /\ q \notin store /\ store' = store \cup {q}
                    /\ q.id = conn'[c].record[1]
                    /\ q.from = Stringify(EnvelopeFrom(c))
                    /\ q.to = Stringify(EnvelopeTo(c))
          /\ Publishes(c) =>
               /\ conn'[c].acked = conn[c].record
               /\ \A d \in Conns \ {c} : conn'[d] = conn[d]
               /\ \E q \in store : /\ q.id = conn[c].record[1]
                                    /\ q.from = Stringify(EnvelopeFrom(c))
     /\ (store' \ store # {}) => \E c \in Conns : Inserts(c)]_vars

\* One session is acknowledged while the other is between its insert and
\* its re-read, each with its own record.
C15_Witness ==
  /\ conn["c1"].st = "select" /\ conn["c2"].st = "acked"
  /\ Cardinality(store) = 2

\* C16: in a data phase the parser of the connection, made at its latest
\* 'startData', has been written the chunks received on that connection so
\* far, each once and in the order of arrival, and nothing else; the parser
\* is ended only once it holds every chunk of the message.
C16_ChunksToOwnParser ==
  \A c \in Conns :
    /\ conn[c].st = "data" =>
         /\ conn[c].mailparser \o conn[c].todo = MessageOf(c)
         /\ ~conn[c].ended
    /\ conn[c].st \in {"insert", "select", "acked", "failed"} =>
         /\ conn[c].ended
         /\ conn[c].mailparser = MessageOf(c)

\* The message of one connection half written to its parser, while the
\* other connection is in its data phase too, all of its message written.
C16_Witness ==
  /\ conn["c1"].st = "data" /\ conn["c1"].mailparser = <<"Subject: Hi">>
  /\ conn["c2"].st = "data" /\ conn["c2"].mailparser = <<"<p>yo</p>">>

\* The viewers the last emit('email') invoked.
Called == {calls[i] : i \in 1..Len(calls)}

\* C17: a viewer of `/` is written a row for a record at most once: the
\* publication of a record does not invoke the listener of a viewer whose
\* initial listing held that record.
C17_RowWrittenOnce ==
  \A c \in Conns :
    conn[c].st = "acked" => conn[c].listedBy \cap Called = {}

\* C18: a record published while a viewer of `/` is past its listing and
\* connected is written to that viewer, in the listing or as the row of the
\* publication; the step that writes the listing, with every row of the
\* table, registers the listener.
C18_NothingMissed ==
  [][/\ \A c \in Conns : Publishes(c) =>
          \A r \in Reqs :
            (req[r].route = "root" /\ req[r].pc \notin {"query", "done"} /\ ~req[r].closed)
              => \/ r \in conn[c].listedBy
                 \/ /\ \E i \in 1..Len(calls') : calls'[i] = r
                    /\ req'[r].rows = Append(req[r].rows, RowFor(conn[c].record[1]))
     /\ \A r \in Reqs :
          (req[r].route = "root" /\ req[r].pc = "query" /\ req'[r].pc \notin {"query", "done"})
            => /\ req'[r].rows = MapRender(MapDeserialize(SelectAll))
               /\ \E i \in 1..Len(listeners') : listeners'[i] = r]_vars

\* A record inserted after a viewer's listing is published to it, while
\* another viewer is still waiting for its listing.
C18_Witness ==
  /\ \E c \in Conns : conn[c].st = "acked" /\ conn[c].listedBy = {}
  /\ \E r \in Reqs, q \in Reqs :
       /\ req[r].pc = "live" /\ ~req[r].closed /\ req[r].rows # <<>>
       /\ req[q].route = "root" /\ req[q].pc = "query"

\* C19: a 200 response of `/api/email/delete/:id` implies that this request
\* removed a record: the step in which the delete settles and answers 200
\* takes a row out of the table.
C19_DeleteRemovedARecord ==
  [][\A r \in Reqs :
       (req[r].pc = "del" /\ req[r].route = "delete"
          /\ req'[r].pc = "done" /\ req'[r].status = 200)
         => store' # store]_vars

\* The ids the store has assigned so far.
Inserted == {insertLog[i] : i \in 1..Len(insertLog)}

\* C20: a session's emit('email') carries the record the session inserted,
\* whose insert has completed and whose row is read from the table; the
\* session has not emitted before and no other session holds or has emitted
\* that record, which was new when it was inserted; and a session whose
\* callback is called with success has emitted its record.
C20_PublishedOnceBeforeAck ==
  [][\A c \in Conns :
       /\ (conn'[c].emitted # conn[c].emitted /\ conn'[c].emitted # <<>>)
            => /\ conn[c].emitted = <<>>
               /\ conn[c].acked = <<>>
               /\ Len(conn'[c].emitted) = 1
               /\ conn'[c].emitted[1] \in Inserted
               /\ \E q \in store : q.id = conn'[c].emitted[1]
               /\ conn[c].record = conn'[c].emitted
               /\ \A d \in Conns \ {c} :
                     conn[d].record # conn'[c].emitted /\ conn[d].emitted # conn'[c].emitted
       /\ (conn[c].acked = <<>> /\ conn'[c].acked # <<>>)
            => conn'[c].emitted = conn'[c].acked
       /\ (conn[c].record = <<>> /\ conn'[c].record # <<>>)
            => conn'[c].record[1] \notin Inserted /\ conn'[c].record[1] \in Inserted']_vars

\* A session has emitted its record to a viewer and is acknowledged while
\* the record of the other session is inserted and not yet emitted.
C20_Witness ==
  \E c \in Conns, d \in Conns :
    /\ conn[c].st = "acked" /\ conn[c].emitted = conn[c].acked /\ calls # <<>>
    /\ conn[d].st = "select" /\ conn[d].emitted = <<>>
    /\ conn[d].record # conn[c].record

====
